---- MODULE Spec2Model ----
(***************************************************************************)
(* Model of src/src/services/fetchVideo.js: the retrying request helper    *)
(* makeApiRequest, its two callers fetchVideoInfo and downloadVideo, the   *)
(* URL validator and the error classes.                                    *)
(*                                                                         *)
(* One behaviour is one call chain: one call of fetchVideoInfo,            *)
(* downloadVideo or makeApiRequest.  Every action is the code that runs    *)
(* between two suspension points (await) of the async functions; the      *)
(* platform (fetch, Response.json, setTimeout, AbortController) supplies   *)
(* the outcome of each suspension as the action's input.                   *)
(***************************************************************************)
EXTENDS Integers, Sequences, FiniteSets, TLC

VARIABLES
    entry,      \* the function the caller invoked
    url,        \* argument url, a sequence of string pieces
    retries,    \* argument retries of makeApiRequest
    retryDelay, \* argument retryDelay of makeApiRequest, in ms
    signal,     \* argument signal: "null", "live" or "aborted"
    pc,         \* suspension point of the call chain
    attempt,    \* loop variable of makeApiRequest
    response,   \* const response of the current attempt
    errorData,  \* const errorData of the current attempt
    videoInfo,  \* const videoInfo of fetchVideoInfo
    waited,     \* ms of retry timers that have run to their end
    chain,      \* stage of the example chain, "none" for any other caller
    calls,      \* requests handed to the network so far
    delays,     \* retry timers started so far
    trace,      \* what happened so far, in order
    marState,   \* promise of makeApiRequest: pending, fulfilled, rejected
    marValue,
    marReason,
    outState,   \* promise the caller holds
    outValue,
    outReason

vars == <<entry, url, retries, retryDelay, signal, pc, attempt, response, errorData,
          videoInfo, waited, chain, calls, delays,
          trace, marState, marValue, marReason, outState, outValue, outReason>>

inputs == <<entry, url, retries, retryDelay>>

----------------------------------------------------------------------------
(* Bounds of the model *)

MaxUrlLen == 4
MaxRetries == 2

(* Arguments fetchVideoInfo and downloadVideo pass to makeApiRequest *)
DefaultRetries == 3
DefaultRetryDelay == 1000

----------------------------------------------------------------------------
(* Error classes *)

NoError == [cls |-> "none", name |-> "", status |-> 0, message |-> ""]

NetworkError(message) ==
    [cls |-> "NetworkError", name |-> "NetworkError", status |-> 0, message |-> message]

ApiError(status, message) ==
    [cls |-> "ApiError", name |-> "ApiError", status |-> status, message |-> message]

ValidationError(message) ==
    [cls |-> "ValidationError", name |-> "ValidationError", status |-> 0, message |-> message]

(* Failures the platform raises *)
AbortError ==
    [cls |-> "DOMException", name |-> "AbortError", status |-> 0,
     message |-> "The operation was aborted."]

FetchTypeError ==
    [cls |-> "TypeError", name |-> "TypeError", status |-> 0, message |-> "Failed to fetch"]

UndefinedTypeError ==
    [cls |-> "TypeError", name |-> "TypeError", status |-> 0,
     message |-> "Cannot read properties of undefined"]

BodySyntaxError ==
    [cls |-> "SyntaxError", name |-> "SyntaxError", status |-> 0,
     message |-> "Unexpected token"]

----------------------------------------------------------------------------
(* Values *)

Undefined == [kind |-> "undefined", status |-> 0, ok |-> FALSE, title |-> "", formats |-> ""]

Statuses == {200, 204, 400, 404, 500}

Response(status) ==
    [kind |-> "response", status |-> status, ok |-> (status >= 200 /\ status <= 299),
     title |-> "", formats |-> ""]

(* Parsed success bodies: title and formats are "absent", "empty" or "full" *)
Presence == {"absent", "empty", "full"}

VideoInfo(title, formats) ==
    [kind |-> "videoInfo", status |-> 0, ok |-> FALSE, title |-> title, formats |-> formats]

NullBody == [kind |-> "null", status |-> 0, ok |-> FALSE, title |-> "", formats |-> ""]

InfoBodies == {NullBody} \cup {VideoInfo(t, f) : t \in Presence, f \in Presence}

(* Error bodies of a failure response: what response.json() settles with *)
JsonNull == [isNull |-> TRUE, hasMessage |-> FALSE, message |-> ""]

(* A body that is not JSON: response.json() rejects *)
Unparsable == [isNull |-> FALSE, hasMessage |-> FALSE, message |-> "<html>"]

ErrorBodies ==
    { JsonNull,
      [isNull |-> FALSE, hasMessage |-> FALSE, message |-> ""],
      [isNull |-> FALSE, hasMessage |-> TRUE,  message |-> ""],
      [isNull |-> FALSE, hasMessage |-> TRUE,  message |-> "not found"],
      [isNull |-> FALSE, hasMessage |-> TRUE,  message |-> "server error"] }

----------------------------------------------------------------------------
(* URL validator *)

Alphabet == {"http://", "https://", "www.", "youtube.com", "youtu.be", "/", "v", "\n"}

Urls == UNION {[1..n -> Alphabet] : n \in 0..MaxUrlLen}

(* . of a JavaScript regular expression: anything but a line terminator *)
Dot(piece) == piece # "\n"

(* /^(https?:\/\/)?(www\.)?(youtube\.com|youtu\.be)\/.+$/.test(u) *)
youtubeRegexTest(u) ==
    \E s \in {0, 1} : \E w \in {0, 1} :
        /\ Len(u) >= s + w + 3
        /\ s = 1 => u[1] \in {"http://", "https://"}
        /\ w = 1 => u[s + 1] = "www."
        /\ u[s + w + 1] \in {"youtube.com", "youtu.be"}
        /\ u[s + w + 2] = "/"
        /\ \A i \in (s + w + 3)..Len(u) : Dot(u[i])

(* Variant: the test is not negated *)
validateYoutubeUrl_Inverted(u) ==
    IF youtubeRegexTest(u)
    THEN ValidationError("Invalid YouTube URL provided.")
    ELSE NoError

validateYoutubeUrl(u) ==
    IF ~youtubeRegexTest(u)
    THEN ValidationError("Invalid YouTube URL provided.")
    ELSE NoError

----------------------------------------------------------------------------
(* makeApiRequest *)

(* Variant: errorData?.message without the fallback for a missing message *)
errorMessage_NoFallback(data) ==
    IF data.isNull THEN "Unknown API error" ELSE data.message

(* errorData?.message || "Unknown API error" *)
errorMessage(data) ==
    IF ~data.isNull /\ data.hasMessage /\ data.message # ""
    THEN data.message
    ELSE "Unknown API error"

(* Variant: everything but a ValidationError is retryable *)
isRetryable_AllButValidation(error) == error.cls # "ValidationError"

(* error instanceof NetworkError || error instanceof ApiError *)
isRetryable(error) == error.cls \in {"NetworkError", "ApiError"}

(* Variant: status 404 and 400 are rethrown from the attempt that gets them *)
shouldRethrow_NoRetry4xx(error, n, r) ==
    \/ error.name = "AbortError"
    \/ n = r
    \/ ~isRetryable(error)
    \/ error.status \in {404, 400}

(* Variant: the catch block does not test attempt === retries *)
shouldRethrow_NoLast(error, n, r) ==
    \/ error.name = "AbortError"
    \/ ~isRetryable(error)

(* The two conditions of the catch block under which the error is rethrown *)
shouldRethrow(error, n, r) ==
    \/ error.name = "AbortError"
    \/ n = r
    \/ ~isRetryable(error)

(* Variant: only status 404 is remapped *)
remapError_Only404(error) ==
    IF error.cls = "ApiError" /\ error.status = 404
    THEN ValidationError("Video not found or invalid URL.")
    ELSE error

(* catch block of fetchVideoInfo *)
remapError(error) ==
    IF error.cls = "ApiError" /\ (error.status = 404 \/ error.status = 400)
    THEN ValidationError("Video not found or invalid URL.")
    ELSE error

MissingFieldsError ==
    ValidationError("Invalid video info data received from server. Missing required fields.")

(* !videoInfo || !videoInfo.title || !videoInfo.formats : an empty string is
   falsy, an empty array is truthy *)
isMalformed(info) ==
    \/ info.kind = "null"
    \/ info.title # "full"
    \/ info.formats = "absent"

(* Variant: downloadVideo remaps the error as fetchVideoInfo does *)
MarReject_RemapAll(error) ==
    /\ marState' = "rejected"
    /\ marReason' = error
    /\ marValue' = marValue
    /\ outState' = "rejected"
    /\ outReason' = remapError(error)
    /\ outValue' = outValue
    /\ pc' = "done"

(* The promise of makeApiRequest rejects with error; fetchVideoInfo's catch
   block remaps it, downloadVideo hands the same promise to the caller *)
MarReject(error) ==
    /\ marState' = "rejected"
    /\ marReason' = error
    /\ marValue' = marValue
    /\ outState' = "rejected"
    /\ outReason' = IF entry = "fetchVideoInfo" THEN remapError(error) ELSE error
    /\ outValue' = outValue
    /\ pc' = "done"

(* The promise of makeApiRequest fulfils with value *)
MarFulfill(value) ==
    /\ marState' = "fulfilled"
    /\ marValue' = value
    /\ marReason' = marReason
    /\ IF entry # "fetchVideoInfo"
       THEN /\ outState' = "fulfilled"
            /\ outValue' = value
            /\ outReason' = outReason
            /\ pc' = "done"
       ELSE IF value.kind = "undefined"
       THEN /\ outState' = "rejected"
            /\ outReason' = remapError(UndefinedTypeError)
            /\ outValue' = outValue
            /\ pc' = "done"
       ELSE /\ UNCHANGED <<outState, outValue, outReason>>
            /\ pc' = "infoBody"

(* catch (error) { ... } of attempt n *)
CatchBlock(error, n) ==
    IF shouldRethrow(error, n, retries)
    THEN /\ MarReject(error)
         /\ delays' = delays
         /\ trace' = Append(trace, IF error.name = "AbortError" THEN "abort"
                                   ELSE IF error.cls = "ApiError" THEN "api"
                                   ELSE "transport")
    ELSE /\ pc' = "delay"
         /\ delays' = delays + 1
         /\ trace' = Append(Append(trace, IF error.cls = "ApiError" THEN "api"
                                           ELSE "transport"), "delay")
         /\ UNCHANGED <<marState, marValue, marReason, outState, outValue, outReason>>

(* Variant: the function throws when the loop ends without a result *)
StartAttempt_ThrowAfterLoop(n) ==
    IF ~(n <= retries)
    THEN /\ MarReject(NetworkError("No attempt was made"))
         /\ UNCHANGED <<attempt, calls, delays, trace>>
    ELSE IF signal = "aborted"
    THEN /\ attempt' = n
         /\ CatchBlock(AbortError, n)
         /\ calls' = calls
    ELSE /\ attempt' = n
         /\ calls' = calls + 1
         /\ trace' = Append(trace, "call")
         /\ pc' = "fetching"
         /\ UNCHANGED <<delays, marState, marValue, marReason,
                        outState, outValue, outReason>>

(* Variant: signal is not handed to fetch, the request is always sent *)
StartAttempt_NoSignal(n) ==
    IF ~(n <= retries)
    THEN /\ MarFulfill(Undefined)
         /\ UNCHANGED <<attempt, calls, delays, trace>>
    ELSE /\ attempt' = n
         /\ calls' = calls + 1
         /\ trace' = Append(trace, "call")
         /\ pc' = "fetching"
         /\ UNCHANGED <<delays, marState, marValue, marReason,
                        outState, outValue, outReason>>

(* Loop head and the call of fetch for attempt n.  fetch called with an
   aborted signal rejects with AbortError and sends nothing. *)
StartAttempt(n) ==
    IF ~(n <= retries)
    THEN /\ MarFulfill(Undefined)
         /\ UNCHANGED <<attempt, calls, delays, trace>>
    ELSE IF signal = "aborted"
    THEN /\ attempt' = n
         /\ CatchBlock(AbortError, n)
         /\ calls' = calls
    ELSE /\ attempt' = n
         /\ calls' = calls + 1
         /\ trace' = Append(trace, "call")
         /\ pc' = "fetching"
         /\ UNCHANGED <<delays, marState, marValue, marReason,
                        outState, outValue, outReason>>

----------------------------------------------------------------------------
(* Actions *)

(* Variant: the loop starts at attempt 0 *)
Invoke_FromZero ==
    /\ pc = "init"
    /\ IF validateYoutubeUrl(url) # NoError
       THEN /\ MarReject(validateYoutubeUrl(url))
            /\ trace' = Append(trace, "invalid")
            /\ UNCHANGED <<attempt, calls, delays>>
       ELSE StartAttempt(0)
    /\ UNCHANGED <<inputs, chain, waited, videoInfo, signal, response, errorData>>

(* The caller invokes the function: validation, then the first attempt *)
Invoke ==
    /\ pc = "init"
    /\ IF validateYoutubeUrl(url) # NoError
       THEN /\ MarReject(validateYoutubeUrl(url))
            /\ trace' = Append(trace, "invalid")
            /\ UNCHANGED <<attempt, calls, delays>>
       ELSE StartAttempt(1)
    /\ UNCHANGED <<inputs, chain, waited, videoInfo, signal, response, errorData>>

(* Variant: aborting ends a running retry delay at once *)
Abort_CancelsDelay ==
    /\ signal = "live"
    /\ pc # "done"
    /\ signal' = "aborted"
    /\ IF pc = "delay"
       THEN /\ MarReject(AbortError)
            /\ trace' = Append(Append(trace, "signal"), "abort")
       ELSE /\ trace' = Append(trace, "signal")
            /\ UNCHANGED <<pc, marState, marValue, marReason,
                           outState, outValue, outReason>>
    /\ UNCHANGED <<inputs, chain, waited, videoInfo, attempt, response, errorData,
                   calls, delays>>

(* controller.abort() *)
Abort ==
    /\ signal = "live"
    /\ pc # "done"
    /\ signal' = "aborted"
    /\ trace' = Append(trace, "signal")
    /\ UNCHANGED <<inputs, chain, waited, videoInfo, pc, attempt, response, errorData, calls, delays,
                   marState, marValue, marReason, outState, outValue, outReason>>

(* Variant: return response is missing, the loop goes on *)
FetchResolves_NoReturn ==
    /\ pc = "fetching"
    /\ signal # "aborted"
    /\ \E status \in Statuses :
         /\ response' = Response(status)
         /\ IF ~Response(status).ok
            THEN /\ pc' = "errorBody"
                 /\ UNCHANGED <<attempt, calls, delays, trace, marState, marValue,
                                marReason, outState, outValue, outReason>>
            ELSE StartAttempt(attempt + 1)
    /\ UNCHANGED <<inputs, chain, waited, videoInfo, signal, errorData>>

(* fetch resolves with a response *)
FetchResolves ==
    /\ pc = "fetching"
    /\ signal # "aborted"
    /\ \E status \in Statuses :
         /\ response' = Response(status)
         /\ IF ~Response(status).ok
            THEN /\ pc' = "errorBody"
                 /\ trace' = trace
                 /\ UNCHANGED <<marState, marValue, marReason,
                                outState, outValue, outReason>>
            ELSE /\ MarFulfill(Response(status))
                 /\ trace' = Append(trace, "ok")
    /\ UNCHANGED <<inputs, chain, waited, videoInfo, signal, attempt, errorData, calls, delays>>

(* Variant: every rejection of fetch is wrapped in NetworkError *)
FetchRejects_Wrapped ==
    /\ pc = "fetching"
    /\ CatchBlock(NetworkError("Failed to fetch"), attempt)
    /\ UNCHANGED <<inputs, chain, waited, videoInfo, signal, attempt, calls, response, errorData>>

(* fetch rejects: a transport failure, or AbortError once the signal aborted *)
FetchRejects ==
    /\ pc = "fetching"
    /\ CatchBlock(IF signal = "aborted" THEN AbortError ELSE FetchTypeError, attempt)
    /\ UNCHANGED <<inputs, chain, waited, videoInfo, signal, attempt, calls, response, errorData>>

(* response.json().catch(() => null) settles, ApiError is thrown and caught *)
ErrorBodyRead ==
    /\ pc = "errorBody"
    /\ \E body \in ErrorBodies \cup {Unparsable} :
         /\ errorData' = IF signal = "aborted" \/ body = Unparsable THEN JsonNull ELSE body
         /\ CatchBlock(ApiError(response.status, errorMessage(errorData')), attempt)
    /\ UNCHANGED <<inputs, chain, waited, videoInfo, signal, attempt, calls, response>>

(* The retry timer fires; the loop goes on with the next attempt *)
DelayElapsed ==
    /\ pc = "delay"
    /\ StartAttempt(attempt + 1)
    /\ waited' = waited + retryDelay
    /\ UNCHANGED <<inputs, chain, videoInfo, signal, response, errorData>>

(* The caller's promise settles from inside fetchVideoInfo's try block *)
InfoReject(error) ==
    /\ outState' = "rejected"
    /\ outReason' = remapError(error)
    /\ outValue' = outValue

(* await response.json() of fetchVideoInfo settles; the body is checked *)
InfoBodyParsed ==
    /\ pc = "infoBody"
    /\ IF signal = "aborted"
       THEN /\ InfoReject(AbortError)
            /\ trace' = Append(trace, "bodyAbort")
            /\ videoInfo' = videoInfo
       ELSE \/ /\ InfoReject(BodySyntaxError)
               /\ trace' = Append(trace, "bodySyntax")
               /\ videoInfo' = videoInfo
            \/ \E body \in InfoBodies :
                 /\ videoInfo' = body
                 /\ trace' = Append(trace, "body")
                 /\ IF isMalformed(body)
                    THEN InfoReject(MissingFieldsError)
                    ELSE /\ outState' = "fulfilled"
                         /\ outValue' = body
                         /\ outReason' = outReason
    /\ pc' = "done"
    /\ UNCHANGED <<inputs, chain, waited, signal, attempt, response, errorData, calls, delays,
                   marState, marValue, marReason>>

Init ==
    /\ entry \in {"fetchVideoInfo", "downloadVideo", "makeApiRequest"}
    /\ url \in Urls
    /\ retries \in (IF entry = "makeApiRequest" THEN 0..MaxRetries ELSE {DefaultRetries})
    /\ retryDelay \in (IF entry = "makeApiRequest" THEN {0, DefaultRetryDelay}
                       ELSE {DefaultRetryDelay})
    /\ chain = "none"
    /\ signal \in {"null", "live"}
    /\ pc = "init"
    /\ attempt = 0
    /\ response = Undefined
    /\ errorData = JsonNull
    /\ videoInfo = Undefined
    /\ waited = 0
    /\ calls = 0
    /\ delays = 0
    /\ trace = <<>>
    /\ marState = "pending"
    /\ marValue = Undefined
    /\ marReason = NoError
    /\ outState = "pending"
    /\ outValue = Undefined
    /\ outReason = NoError

Next ==
    \/ Invoke
    \/ Abort
    \/ FetchResolves
    \/ FetchRejects
    \/ ErrorBodyRead
    \/ DelayElapsed
    \/ InfoBodyParsed

Spec == Init /\ [][Next]_vars

(* The URLs of the scenarios: accepted with scheme, accepted with www., refused *)
SampleUrls ==
    { <<"https://", "youtu.be", "/", "v">>,
      <<"www.", "youtube.com", "/", "v">>,
      <<"v">> }

InitSample == Init /\ url \in SampleUrls

(* Every network call, body read and timer completes *)
FairSpec ==
    /\ InitSample
    /\ [][Next]_vars
    /\ WF_vars(Invoke)
    /\ WF_vars(FetchResolves \/ FetchRejects)
    /\ WF_vars(ErrorBodyRead)
    /\ WF_vars(DelayElapsed)
    /\ WF_vars(InfoBodyParsed)

----------------------------------------------------------------------------
(* Example usage chain, run when the module is loaded *)

(* "your_youtube_url": one piece, no scheme, no host, no "/" *)
PlaceholderUrl == <<"your_youtube_url">>

ChainUrls == SampleUrls \cup {PlaceholderUrl}

(* Variant: the handler has no branch for ValidationError *)
catchBranch_NoValidation(error) ==
    IF error.name = "AbortError" THEN "cancelled"
    ELSE "errorOccurred"

(* The branches of the final .catch handler *)
catchBranch(error) ==
    IF error.name = "AbortError" THEN "cancelled"
    ELSE IF error.cls = "ValidationError" THEN "validationError"
    ELSE "errorOccurred"

(* First .then handler: logs the video info and calls downloadVideo with the
   same url and signal; the call itself is the step Invoke *)
ChainDownload ==
    /\ chain = "info" /\ pc = "done" /\ outState = "fulfilled"
    /\ chain' = "download"
    /\ entry' = "downloadVideo"
    /\ trace' = Append(trace, "download")
    /\ pc' = "init"
    /\ attempt' = 0
    /\ response' = Undefined
    /\ errorData' = JsonNull
    /\ marState' = "pending" /\ marValue' = Undefined /\ marReason' = NoError
    /\ outState' = "pending" /\ outValue' = Undefined /\ outReason' = NoError
    /\ UNCHANGED <<url, retries, retryDelay, signal, videoInfo, waited, calls, delays>>

(* The .then handlers after downloadVideo: pump the body into a stream, make
   a blob of it and click a download link; any failure goes to .catch *)
ChainConsume ==
    /\ chain = "download" /\ pc = "done" /\ outState = "fulfilled"
    /\ \E saved \in BOOLEAN :
         /\ chain' = IF saved THEN "saved" ELSE catchBranch(UndefinedTypeError)
         /\ trace' = Append(trace, IF saved THEN "saved" ELSE "consumeError")
    /\ UNCHANGED <<inputs, signal, pc, attempt, response, errorData, videoInfo, waited,
                   calls, delays, marState, marValue, marReason,
                   outState, outValue, outReason>>

(* The final .catch handler, for a rejection of either call *)
ChainCatch ==
    /\ chain \in {"info", "download"} /\ pc = "done" /\ outState = "rejected"
    /\ chain' = catchBranch(outReason)
    /\ trace' = Append(trace, "catch")
    /\ UNCHANGED <<inputs, signal, pc, attempt, response, errorData, videoInfo, waited,
                   calls, delays, marState, marValue, marReason,
                   outState, outValue, outReason>>

(* Module load: fetchVideoInfo("your_youtube_url", signal) with the signal of
   a controller nothing aborts; the URL ranges over the scenarios too *)
LoadInit ==
    /\ entry = "fetchVideoInfo"
    /\ url \in ChainUrls
    /\ retries = DefaultRetries
    /\ retryDelay = DefaultRetryDelay
    /\ signal = "live"
    /\ chain = "info"
    /\ pc = "init"
    /\ attempt = 0
    /\ response = Undefined
    /\ errorData = JsonNull
    /\ videoInfo = Undefined
    /\ waited = 0
    /\ calls = 0
    /\ delays = 0
    /\ trace = <<>>
    /\ marState = "pending"
    /\ marValue = Undefined
    /\ marReason = NoError
    /\ outState = "pending"
    /\ outValue = Undefined
    /\ outReason = NoError

LoadNext ==
    \/ Invoke
    \/ FetchResolves
    \/ FetchRejects
    \/ ErrorBodyRead
    \/ DelayElapsed
    \/ InfoBodyParsed
    \/ ChainDownload
    \/ ChainConsume
    \/ ChainCatch

LoadSpec == LoadInit /\ [][LoadNext]_vars /\ WF_vars(LoadNext)

TypeOK ==
    /\ pc \in {"init", "fetching", "errorBody", "delay", "infoBody", "done"}
    /\ signal \in {"null", "live", "aborted"}
    /\ marState \in {"pending", "fulfilled", "rejected"}
    /\ outState \in {"pending", "fulfilled", "rejected"}
    /\ attempt \in 0..DefaultRetries + MaxRetries
    /\ calls \in Nat /\ delays \in Nat

----------------------------------------------------------------------------
(* Properties *)

Last(seq) == seq[Len(seq)]

HasEvent(e) == \E i \in 1..Len(trace) : trace[i] = e

Completed == marState # "pending"

InvalidUrlError == ValidationError("Invalid YouTube URL provided.")

NotFoundError == ValidationError("Video not found or invalid URL.")

(* C1: a URL the pattern refuses makes the call fail with
   ValidationError("Invalid YouTube URL provided.") with no network call and
   no retry delay, whatever the state of the signal and for every entry
   point. *)
C1_InvalidUrlRejected ==
    (pc # "init" /\ ~youtubeRegexTest(url)) =>
        /\ pc = "done"
        /\ marState = "rejected" /\ marReason = InvalidUrlError
        /\ outState = "rejected" /\ outReason = InvalidUrlError
        /\ calls = 0 /\ delays = 0

C1_Witness ==
    /\ pc = "done" /\ ~youtubeRegexTest(url) /\ Len(url) >= 3
    /\ entry = "fetchVideoInfo" /\ signal = "aborted"
    /\ outReason = InvalidUrlError

(* C2: with a valid URL, maxAttempts >= 1 and no cancellation, when every
   attempt fails with a backend failure status or a transport failure,
   exactly maxAttempts network calls occur and the error of the final
   attempt is propagated. *)
C2_RetryableFailuresExhaustBudget ==
    (/\ Completed /\ youtubeRegexTest(url) /\ retries >= 1
     /\ ~HasEvent("signal") /\ ~HasEvent("ok")) =>
        /\ calls = retries
        /\ attempt = retries
        /\ marState = "rejected"
        /\ Last(trace) \in {"api", "transport"}

(* C3: a transport failure of fetch is classified as NetworkError; on an
   attempt that is not the last one it is retried, on the last attempt the
   caller observes a NetworkError. *)
C3_TransportFailureIsNetworkError ==
    (Completed /\ Len(trace) > 0 /\ Last(trace) = "transport") =>
        /\ attempt = retries
        /\ marReason.cls = "NetworkError"
        /\ outReason.cls = "NetworkError"

(* C4: the number of network calls issued never exceeds maxAttempts. *)
C4_CallsAtMostMaxAttempts == calls <= retries

C4_Witness ==
    /\ calls = retries /\ retries = DefaultRetries /\ pc = "done"
    /\ trace = <<"call", "api", "delay", "call", "api", "delay", "call", "api">>

(* C5: with maxAttempts >= 1 the invocation eventually completes, and when
   it has completed it has exactly one outcome: a success response or a
   propagated error. *)
ExactlyOneOutcome ==
    LET success == marValue.kind = "response" /\ marValue.ok
        failure == marReason # NoError
    IN  /\ (success \/ failure) /\ ~(success /\ failure)
        /\ success <=> marState = "fulfilled"
        /\ failure <=> marState = "rejected"

C5_CompletesWithOneOutcome ==
    /\ [](retries >= 1 => (Completed => ExactlyOneOutcome))
    /\ (retries >= 1) ~> Completed

C5_Witness ==
    /\ Completed /\ ExactlyOneOutcome /\ retries >= 1
    /\ marState = "fulfilled" /\ delays >= 1

(* C6: a success response is returned by the step that receives it; after
   it no network call and no retry delay occurs, and the delays before it
   are those of the failed attempts only (none for attempt 1). *)
C6_SuccessReturnsAtOnce ==
    [][ /\ (pc = "fetching" /\ response' # response /\ response'.ok) =>
            /\ marState' = "fulfilled" /\ marValue' = response'
            /\ calls' = calls /\ delays' = delays
            /\ delays = attempt - 1
        /\ (marState = "fulfilled") =>
            /\ marState' = "fulfilled" /\ marValue' = marValue
            /\ calls' = calls /\ delays' = delays ]_vars

C6_Witness ==
    /\ pc = "done" /\ entry = "fetchVideoInfo" /\ outState = "fulfilled"
    /\ marValue.ok /\ attempt = 2 /\ delays = 1 /\ calls = 2

(* C7: when the request of fetchVideoInfo ends in a failure response with
   status 404 or 400 the caller observes
   ValidationError("Video not found or invalid URL."), never an ApiError. *)
C7_InfoNotFoundIsValidationError ==
    (/\ pc = "done" /\ entry = "fetchVideoInfo"
     /\ Len(trace) > 0 /\ Last(trace) = "api" /\ response.status \in {404, 400}) =>
        /\ outState = "rejected"
        /\ outReason = NotFoundError
        /\ outReason.cls # "ApiError"

C7_Witness ==
    /\ pc = "done" /\ entry = "fetchVideoInfo" /\ Last(trace) = "api"
    /\ response.status = 400 /\ outReason = NotFoundError

(* C8: when the request of fetchVideoInfo ends in a failure response with
   another status, the caller observes the ApiError with that status and the
   message of the body, or "Unknown API error" when the body has no message
   or is not JSON. *)
C8_InfoOtherStatusIsApiError ==
    (/\ pc = "done" /\ entry = "fetchVideoInfo"
     /\ Len(trace) > 0 /\ Last(trace) = "api" /\ response.status \notin {404, 400}) =>
        /\ outState = "rejected"
        /\ outReason.cls = "ApiError" /\ outReason.name = "ApiError"
        /\ outReason.status = response.status
        /\ outReason.message =
              (IF errorData.hasMessage /\ errorData.message # ""
               THEN errorData.message ELSE "Unknown API error")
        /\ outReason = marReason

C8_Witness ==
    /\ pc = "done" /\ entry = "fetchVideoInfo" /\ Last(trace) = "api"
    /\ response.status = 500 /\ outReason = ApiError(500, "server error")

C8_WitnessUnknown ==
    /\ pc = "done" /\ entry = "fetchVideoInfo" /\ Last(trace) = "api"
    /\ response.status = 500 /\ outReason = ApiError(500, "Unknown API error")

(* C9: when the signal is aborted before fetchVideoInfo or downloadVideo is
   called with an accepted URL, no network call and no retry delay occurs
   and the call fails with the AbortError. *)
C9_AbortedBeforeCall ==
    (/\ pc # "init" /\ youtubeRegexTest(url) /\ retries >= 1
     /\ trace[1] = "signal") =>
        /\ pc = "done"
        /\ calls = 0 /\ delays = 0
        /\ outState = "rejected" /\ outReason = AbortError
        /\ marReason = AbortError

C9_Witness ==
    /\ pc = "done" /\ youtubeRegexTest(url) /\ entry = "downloadVideo"
    /\ trace = <<"signal", "abort">> /\ outReason = AbortError

(* C10: when the signal is aborted while fetch is pending, the next step
   rejects with the AbortError, starts no retry delay and sends no further
   request, on every attempt; fetchVideoInfo hands the AbortError on
   unchanged. *)
C10_AbortedInFlight ==
    [][ (pc = "fetching" /\ signal = "aborted") =>
            /\ pc' = "done"
            /\ marState' = "rejected" /\ marReason' = AbortError
            /\ outState' = "rejected" /\ outReason' = AbortError
            /\ calls' = calls /\ delays' = delays ]_vars

C10_Witness ==
    /\ pc = "done" /\ entry = "fetchVideoInfo" /\ attempt = 2 /\ retries = 3
    /\ trace = <<"call", "api", "delay", "call", "signal", "abort">>
    /\ outReason = AbortError /\ calls = 2 /\ delays = 1

(* C11: fetchVideoInfo fails with the missing-fields ValidationError whenever
   the parsed body lacks a non-empty title or a non-empty formats sequence,
   and returns the parsed object only when both are present and non-empty. *)
C11_MalformedBodyRejected ==
    (pc = "done" /\ entry = "fetchVideoInfo" /\ Len(trace) > 0 /\ Last(trace) = "body") =>
        IF videoInfo.kind = "videoInfo" /\ videoInfo.title = "full"
           /\ videoInfo.formats = "full"
        THEN outState = "fulfilled" /\ outValue = videoInfo
        ELSE outState = "rejected" /\ outReason = MissingFieldsError

(* C12: the outcome of downloadVideo is the outcome of makeApiRequest with
   3 attempts and a delay of 1000: the same response on success, the same
   error on failure (an ApiError with status 404 or 400 included), and no
   body is parsed. *)
C12_DownloadIsMakeApiRequest ==
    (entry = "downloadVideo") =>
        /\ retries = 3 /\ retryDelay = 1000
        /\ pc # "infoBody"
        /\ outState = marState /\ outValue = marValue /\ outReason = marReason
        /\ (marState = "fulfilled" => outValue = response /\ response.ok)
        /\ (pc = "done" /\ Last(trace) = "api" =>
               outReason.cls = "ApiError" /\ outReason.status = response.status)

C12_Witness ==
    /\ entry = "downloadVideo" /\ pc = "done" /\ Last(trace) = "api"
    /\ response.status = 404 /\ outReason = ApiError(404, "not found") /\ calls = 3

(* C13: once the signal is aborted while an error body or a success body is
   being read, the next step fails the call with the AbortError: no ApiError
   is built, no retry delay starts, nothing else surfaces. *)
C13_AbortedBodyReadShortCircuits ==
    [][ (pc \in {"errorBody", "infoBody"} /\ signal = "aborted") =>
            /\ pc' = "done"
            /\ outState' = "rejected" /\ outReason' = AbortError
            /\ calls' = calls /\ delays' = delays ]_vars

(* C14: aborting the signal during a retry delay leaves the delay running;
   when the timer fires the whole delay has been waited, the next attempt
   sends nothing and the invocation fails with the AbortError. *)
C14_AbortedDuringDelay ==
    [][ /\ (pc = "delay" /\ signal = "live" /\ signal' = "aborted") =>
            /\ pc' = "delay" /\ marState' = "pending" /\ waited' = waited
        /\ (pc = "delay" /\ signal = "aborted") =>
            /\ pc' = "done"
            /\ waited' = waited + retryDelay
            /\ calls' = calls /\ delays' = delays
            /\ marState' = "rejected" /\ marReason' = AbortError
            /\ outState' = "rejected" /\ outReason' = AbortError ]_vars

C14_Witness ==
    /\ pc = "done" /\ trace = <<"call", "api", "delay", "signal", "abort">>
    /\ waited = DefaultRetryDelay /\ calls = 1 /\ outReason = AbortError

(* C15: a failure of an attempt that is neither a NetworkError nor an
   ApiError nor a cancellation is propagated by the step that catches it:
   no retry delay and no further network call, whatever budget remains. *)
C15_UnexpectedFailurePropagates ==
    [][ (/\ pc = "fetching" /\ Len(trace') > Len(trace)
         /\ trace'[Len(trace) + 1] = "transport") =>
            /\ trace' = Append(trace, "transport")
            /\ pc' = "done"
            /\ marState' = "rejected" /\ marReason' = FetchTypeError
            /\ outState' = "rejected" /\ outReason' = FetchTypeError
            /\ calls' = calls /\ delays' = delays ]_vars

C15_Witness ==
    /\ pc = "done" /\ attempt = 1 /\ retries = 3 /\ Last(trace) = "transport"
    /\ marReason = FetchTypeError /\ calls = 1 /\ delays = 0

(* C16: fetchVideoInfo remaps only the error makeApiRequest finally
   propagates: a failure response on an attempt that is not the last one,
   404 and 400 included, is followed by a retry delay, and the remapped
   ValidationError surfaces only after all 3 network calls. *)
C16_RemapOnlyFinalError ==
    /\ []((entry = "fetchVideoInfo" /\ chain = "none" /\ outReason = NotFoundError) =>
            /\ calls = retries /\ attempt = retries /\ delays = retries - 1
            /\ response.status \in {404, 400})
    /\ [][ (/\ entry = "fetchVideoInfo" /\ pc = "errorBody" /\ attempt < retries
             /\ pc' # "errorBody") =>
                /\ pc' = "delay" /\ outState' = "pending"
                /\ calls' = calls ]_vars

C16_Witness ==
    /\ entry = "fetchVideoInfo" /\ pc = "delay" /\ attempt = 1
    /\ response.status = 404 /\ outState = "pending" /\ calls = 1

(* C17: attempts and delays alternate, a later attempt is sent only after a
   failed attempt and a whole delay, at most one call is in flight. *)
IsCallOrDelay(e) == e \in {"call", "delay"}

IsOutcome(e) == e \in {"ok", "api", "transport", "abort"}

Alternates ==
    LET ev == SelectSeq(trace, IsCallOrDelay)
    IN  /\ \A i \in 1..Len(ev) : ev[i] = (IF i % 2 = 1 THEN "call" ELSE "delay")
        /\ \A i \in 2..Len(trace) :
              /\ trace[i] = "call" => trace[i - 1] = "delay"
              /\ trace[i] = "delay" => trace[i - 1] \in {"api", "transport"}
        /\ (pc \in {"fetching", "errorBody"}) <=>
              (\E i \in 1..Len(trace) :
                  /\ trace[i] = "call"
                  /\ \A j \in (i + 1)..Len(trace) : ~IsOutcome(trace[j]))
        /\ (pc = "fetching" => waited = retryDelay * (calls - 1))

(* C17 as stated: moreover an invocation with n network calls has exactly
   n - 1 delays. *)
C17_CallsAndDelaysAlternate ==
    /\ Alternates
    /\ (Completed /\ calls >= 1 => delays = calls - 1)

(* C17 amended: an invocation with n network calls has n - 1 delays, or n
   delays when the attempt after the last delay found the signal aborted
   and sent nothing. *)
C17_CallsAndDelaysAlternateUnlessAborted ==
    /\ Alternates
    /\ (Completed /\ calls >= 1 =>
          \/ delays = calls - 1
          \/ /\ delays = calls /\ attempt = calls + 1
             /\ marReason = AbortError /\ Last(trace) = "abort")

C17_Witness ==
    /\ pc = "done" /\ calls = 3 /\ delays = 2 /\ waited = 2 * DefaultRetryDelay
    /\ trace = <<"call", "api", "delay", "call", "api", "delay", "call", "ok">>

(* C18: loading the module calls fetchVideoInfo with the placeholder URL,
   which validation refuses: no network call, downloadVideo is never
   called, and the chain ends, once, in the ValidationError branch of its
   .catch handler. *)
C18_ModuleLoadEndsInValidationHandler ==
    (url = PlaceholderUrl) =>
        /\ [](/\ calls = 0 /\ delays = 0
              /\ ~HasEvent("download") /\ entry = "fetchVideoInfo"
              /\ chain \in {"info", "validationError"}
              /\ (pc = "done" => outReason = InvalidUrlError))
        /\ <>[](chain = "validationError" /\ trace = <<"invalid", "catch">>)

C18_Witness ==
    /\ url = PlaceholderUrl /\ chain = "validationError" /\ calls = 0
    /\ trace = <<"invalid", "catch">>

(* C19: makeApiRequest called with an accepted URL and maxAttempts <= 0
   sends nothing and its promise fulfils with undefined: no response, no
   error. *)
C19_NoAttemptsFulfilsUndefined ==
    (pc # "init" /\ youtubeRegexTest(url) /\ retries <= 0) =>
        /\ pc = "done"
        /\ calls = 0 /\ delays = 0
        /\ marState = "fulfilled" /\ marValue = Undefined /\ marReason = NoError
        /\ outState = "fulfilled" /\ outValue = Undefined /\ outReason = NoError

C19_Witness ==
    /\ pc = "done" /\ entry = "makeApiRequest" /\ retries = 0
    /\ youtubeRegexTest(url) /\ signal = "aborted"
    /\ marState = "fulfilled" /\ marValue = Undefined

====
